---- MODULE Spec2Model ----
(***************************************************************************)
(* Model of src/src/bios.rs: the BIOS bootloader component of bootupd.     *)
(*                                                                         *)
(* The filesystem is a function from paths (sequences of path components)  *)
(* to nodes.  A node is a directory, a regular file with its content, or   *)
(* an entry of another type (a socket: neither directory nor regular       *)
(* file, not readable as a directory, not writable through fs::copy).      *)
(* The root <<>> is always a directory.                                    *)
(***************************************************************************)
EXTENDS Naturals, Sequences, FiniteSets, TLC

VARIABLES fs, last, current

vars == <<fs, last, current>>

(***************************************************************************)
(* Bounds.                                                                 *)
(***************************************************************************)
\* longest path, in components, the model filesystem accepts (PATH_MAX)
MaxDepth == 3
\* most entries the test set-up creates before copy_dir_all is called
MaxNodes == 4
\* file contents are 0 (empty) .. NumData
NumData == 1
\* longest block-device listing
MaxDevs == 2

(***************************************************************************)
(* Filesystem primitives (std::path, std::fs as bios.rs uses them).        *)
(***************************************************************************)
Names == {"a", "b"}

\* PATH_MAX, in components: room for the fixed system paths and MaxDepth more
PathMax == MaxDepth + 4

Dir == [data |-> 0, kind |-> "dir"]
File(d) == [data |-> d, kind |-> "file"]
Other == [data |-> 0, kind |-> "other"]

EmptyFs == (<<>> :> Dir)

\* Path::exists
exists(f, p) == p \in DOMAIN f

is_dir(f, p) == p \in DOMAIN f /\ f[p].kind = "dir"

is_file(f, p) == p \in DOMAIN f /\ f[p].kind = "file"

Prefixes(p) == {SubSeq(p, 1, k) : k \in 0..Len(p)}

IsPrefix(p, q) == Len(p) <= Len(q) /\ SubSeq(q, 1, Len(p)) = p

\* Path::join of one component
join(p, n) == Append(p, n)

\* fs::create_dir_all: Ok when the path is a directory already; an error,
\* with nothing created, when an existing ancestor (or the path) is not a
\* directory or the path is too long; otherwise every missing ancestor and
\* the path itself become directories.
create_dir_all(f, p) ==
    IF is_dir(f, p) THEN [fs |-> f, ok |-> TRUE]
    ELSE IF \E q \in Prefixes(p) : exists(f, q) /\ ~is_dir(f, q)
        THEN [fs |-> f, ok |-> FALSE]
    ELSE IF Len(p) > PathMax THEN [fs |-> f, ok |-> FALSE]
    ELSE [fs |-> [q \in DOMAIN f \cup Prefixes(p) |->
                    IF q \in DOMAIN f THEN f[q] ELSE Dir],
          ok |-> TRUE]

\* fs::copy of a regular file: the destination is opened with create and
\* truncate, so it fails on a directory or a socket, and a file copied onto
\* itself ends up empty.
fs_copy(f, from, to) ==
    IF ~is_file(f, from) THEN [fs |-> f, ok |-> FALSE]
    ELSE IF Len(to) > PathMax \/ Len(to) = 0 THEN [fs |-> f, ok |-> FALSE]
    ELSE IF ~is_dir(f, SubSeq(to, 1, Len(to) - 1)) THEN [fs |-> f, ok |-> FALSE]
    ELSE IF exists(f, to) /\ ~is_file(f, to) THEN [fs |-> f, ok |-> FALSE]
    ELSE [fs |-> [q \in DOMAIN f \cup {to} |->
                    IF q = to
                    THEN (IF from = to THEN File(0) ELSE File(f[from].data))
                    ELSE f[q]],
          ok |-> TRUE]

\* the orders a directory listing may come in
Orders == {o \in [1..Cardinality(Names) -> Names] : \A n \in Names : \E i \in DOMAIN o : o[i] = n}

\* the entry names of directory p, in the order `ord` gives
RECURSIVE read_dir_from(_, _, _, _)
read_dir_from(f, p, ord, i) ==
    IF i > Len(ord) THEN <<>>
    ELSE IF exists(f, join(p, ord[i]))
        THEN <<ord[i]>> \o read_dir_from(f, p, ord, i + 1)
        ELSE read_dir_from(f, p, ord, i + 1)

\* fs::read_dir: the listings of directory p the filesystem may give (the
\* order of each listing is the filesystem's choice, directory by directory)
read_dir(f, p) == {read_dir_from(f, p, ord, 1) : ord \in Orders}

(***************************************************************************)
(* copy_dir_all (bios.rs 182-206): every way the call can go.              *)
(***************************************************************************)
RECURSIVE copy_dir_all(_, _, _)
RECURSIVE copy_entries(_, _, _, _)
RECURSIVE copy_entries_flat(_, _, _, _)

\* a loop that leaves subdirectories alone, as it leaves other entries
copy_entries_flat(f, src, dest, entries) ==
    IF entries = <<>> THEN {[fs |-> f, ok |-> TRUE]}
    ELSE LET src_path == join(src, Head(entries))
             dest_path == join(dest, Head(entries))
             r == IF is_file(f, src_path) THEN fs_copy(f, src_path, dest_path)
                  ELSE [fs |-> f, ok |-> TRUE]
         IN  IF r.ok THEN copy_entries_flat(r.fs, src, dest, Tail(entries))
             ELSE {r}

\* the for loop over the entries of src (bios.rs 189-203)
copy_entries(f, src, dest, entries) ==
    IF entries = <<>> THEN {[fs |-> f, ok |-> TRUE]}
    ELSE LET src_path == join(src, Head(entries))
             dest_path == join(dest, Head(entries))
             rs == IF is_dir(f, src_path) THEN copy_dir_all(f, src_path, dest_path)
                   ELSE IF is_file(f, src_path) THEN {fs_copy(f, src_path, dest_path)}
                   ELSE {[fs |-> f, ok |-> TRUE]}
         IN  UNION {IF r.ok THEN copy_entries(r.fs, src, dest, Tail(entries))
                    ELSE {r} : r \in rs}

\* a copy that creates the destination before it looks at the source
copy_dir_all_create_first(f, src, dest) ==
    LET c == create_dir_all(f, dest)
    IN  IF ~c.ok THEN {c}
        ELSE IF ~exists(c.fs, src) THEN {[fs |-> c.fs, ok |-> FALSE]}
        ELSE IF ~is_dir(c.fs, src) THEN {[fs |-> c.fs, ok |-> FALSE]}
        ELSE UNION {copy_entries(c.fs, src, dest, entries)
                        : entries \in read_dir(c.fs, src)}

\* a copy that, like cp -r, copies into dest/<name of src> when dest exists
copy_dir_all_into(f, src, dest) ==
    IF ~exists(f, src) THEN {[fs |-> f, ok |-> FALSE]}
    ELSE LET to == IF exists(f, dest) /\ src # <<>>
                   THEN join(dest, src[Len(src)]) ELSE dest
             c == create_dir_all(f, to)
         IN  IF ~c.ok THEN {c}
             ELSE IF ~is_dir(c.fs, src) THEN {[fs |-> c.fs, ok |-> FALSE]}
             ELSE UNION {copy_entries(c.fs, src, to, entries)
                            : entries \in read_dir(c.fs, src)}

copy_dir_all(f, src, dest) ==
    IF ~exists(f, src) THEN {[fs |-> f, ok |-> FALSE]}
    ELSE LET c == create_dir_all(f, dest)
         IN  IF ~c.ok THEN {c}
             ELSE IF ~is_dir(c.fs, src) THEN {[fs |-> c.fs, ok |-> FALSE]}
             ELSE UNION {copy_entries(c.fs, src, dest, entries)
                            : entries \in read_dir(c.fs, src)}

(***************************************************************************)
(* Values.  Option: None is <<>>, Some(v) is <<v>>.  Result: ok with val,  *)
(* or not ok with err.  A String is a sequence of tokens, each a run of    *)
(* whitespace or a run of other characters.                                *)
(***************************************************************************)
None == <<>>
Some(v) == <<v>>

Ok(v) == [err |-> "", ok |-> TRUE, val |-> v]
Err(e) == [err |-> e, ok |-> FALSE, val |-> None]

Whitespace == {"\n", " "}

\* str::trim
RECURSIVE trim_start(_)
trim_start(str) ==
    IF str # <<>> /\ Head(str) \in Whitespace THEN trim_start(Tail(str)) ELSE str

RECURSIVE trim_end(_)
trim_end(str) ==
    IF str # <<>> /\ str[Len(str)] \in Whitespace
    THEN trim_end(SubSeq(str, 1, Len(str) - 1))
    ELSE str

trim(str) == trim_end(trim_start(str))

\* one entry of the log of what an operation called
Call(cmd, arg, dir, ok) == [arg |-> arg, cmd |-> cmd, dir |-> dir, ok |-> ok]

Cmds(log) == {log[i].cmd : i \in DOMAIN log}

(***************************************************************************)
(* External commands.  A run is the exit status and the standard output.   *)
(***************************************************************************)
Run(ok, stdout) == [ok |-> ok, stdout |-> stdout]

\* findmnt --noheadings --nofsroot --output SOURCE /boot: fails when /boot
\* is no mount point, else prints the source (which may be blank)
FindmntRuns ==
    {Run(FALSE, <<>>), Run(TRUE, <<"\n">>), Run(TRUE, <<"/dev/sda1", "\n">>)}

\* lsblk --paths --noheadings --output PKNAME <partition>: fails on a
\* missing or unknown device, prints a blank line for a device that has no
\* parent, else the parent
LsblkPknameRuns(partition) ==
    IF partition = <<>> THEN {Run(FALSE, <<>>)}
    ELSE {Run(FALSE, <<>>), Run(TRUE, <<"\n">>), Run(TRUE, <<"/dev/sda", "\n">>)}

\* util::cmd_output: the standard output of a command that succeeded
cmd_output(run) ==
    IF run.ok THEN Ok(run.stdout) ELSE Err("command failed")

(***************************************************************************)
(* get_device (bios.rs 33-64), x86_64: every way the call can go, each     *)
(* with the log extended by the commands it ran.                           *)
(***************************************************************************)
get_device(log) ==
    UNION {
        LET partition == cmd_output(f)
            log1 == Append(log, Call("findmnt", <<"/boot">>, <<>>, f.ok))
        IN  IF ~partition.ok THEN {[log |-> log1, res |-> Err(partition.err)]}
            ELSE {[log |-> Append(log1, Call("lsblk-pkname", trim(partition.val), <<>>, l.ok)),
                   res |-> cmd_output(l)]
                    : l \in LsblkPknameRuns(trim(partition.val))}
        : f \in FindmntRuns}

(***************************************************************************)
(* The block-device listing (bios.rs 16-26, 163-167).  A JSON string is    *)
(* <<s>>, null is <<>>; an object is a function from its keys.             *)
(***************************************************************************)
JsonNull == <<>>
JsonStr(x) == <<x>>

\* serde: an Option<String> field is None when the key is missing or null
de_option(obj, key) ==
    IF key \in DOMAIN obj THEN (IF obj[key] = JsonNull THEN None ELSE Some(obj[key][1]))
    ELSE None

\* serde: a String field must be present and a string
de_string_ok(obj, key) == key \in DOMAIN obj /\ obj[key] # JsonNull

\* BlockDevice, deserialized; keys the struct does not name are ignored
de_BlockDevice(obj) ==
    [parttypename |-> de_option(obj, "parttypename"),
     path |-> obj["path"][1],
     pttype |-> de_option(obj, "pttype")]

\* serde_json::from_str::<Devices>: text is [json |-> FALSE] for output that
\* is not JSON, else [json |-> TRUE, value |-> the object]
de_Devices(text) ==
    IF ~text.json THEN Err("Could not deserialize JSON output from lsblk")
    ELSE IF "blockdevices" \notin DOMAIN text.value
        THEN Err("Could not deserialize JSON output from lsblk")
    ELSE IF \E i \in DOMAIN text.value.blockdevices :
                ~de_string_ok(text.value.blockdevices[i], "path")
        THEN Err("Could not deserialize JSON output from lsblk")
    ELSE Ok([blockdevices |->
                [i \in DOMAIN text.value.blockdevices |->
                    de_BlockDevice(text.value.blockdevices[i])]])

\* a test that is content with either field
is_bios_boot_either(device) ==
    /\ device.parttypename # None
    /\ \/ device.parttypename[1] = "BIOS boot"
       \/ device.pttype = Some("gpt")

\* the test of one device (bios.rs 171-172)
is_bios_boot(device) ==
    /\ device.parttypename # None
    /\ device.parttypename[1] = "BIOS boot"
    /\ device.pttype = Some("gpt")

\* the loop over devices.blockdevices (bios.rs 170-177)
RECURSIVE find_bios_boot(_, _)
find_bios_boot(blockdevices, i) ==
    IF i > Len(blockdevices) THEN None
    ELSE IF is_bios_boot(blockdevices[i]) THEN Some(blockdevices[i].path)
    ELSE find_bios_boot(blockdevices, i + 1)

\* get_bios_boot_partition (bios.rs 147-178) once lsblk --json has run
parse_bios_boot(j) ==
    IF ~j.ok THEN Err("Failed to run lsblk")
    ELSE LET devices == de_Devices(j.stdout)
         IN  IF ~devices.ok THEN Err(devices.err)
             ELSE Ok(find_bios_boot(devices.val.blockdevices, 1))

\* lsblk --json failing: no device, or not a block device
NoListing == Run(FALSE, [json |-> FALSE])

\* get_bios_boot_partition, with the listings lsblk --json may print for a
\* device that is named
get_bios_boot_partition(log, listings) ==
    UNION {
        IF ~d.res.ok THEN {[listing |-> NoListing, log |-> d.log, res |-> Err(d.res.err)]}
        ELSE {[listing |-> j,
               log |-> Append(d.log, Call("lsblk-json", trim(d.res.val), <<>>, j.ok)),
               res |-> parse_bios_boot(j)]
                : j \in IF trim(d.res.val) = <<>> THEN {NoListing} ELSE listings}
        : d \in get_device(log)}

(***************************************************************************)
(* Calling copy_dir_all on a prepared tree, as the tests do                *)
(* (bios.rs 313-344): the set-up creates directories, files and other      *)
(* entries, then one call is made with any source and destination.         *)
(***************************************************************************)
RECURSIVE SeqsUpTo(_)
SeqsUpTo(n) ==
    IF n = 0 THEN {<<>>}
    ELSE SeqsUpTo(n - 1) \cup
         {join(p, x) : p \in {q \in SeqsUpTo(n - 1) : Len(q) = n - 1}, x \in Names}

\* the paths a call may name
CallPaths == SeqsUpTo(MaxDepth - 1)

NoOp == [op |-> "none"]

InitCopy ==
    /\ fs = EmptyFs
    /\ last = NoOp
    /\ current = <<>>

CanCreate(p) ==
    /\ Cardinality(DOMAIN fs) - 1 < MaxNodes
    /\ Len(p) <= MaxDepth
    /\ ~exists(fs, p)

\* fs::create_dir in the test set-up
SetupCreateDir ==
    /\ last.op = "none"
    /\ \E d \in {q \in DOMAIN fs : is_dir(fs, q)}, n \in Names :
        /\ CanCreate(join(d, n))
        /\ fs' = (join(d, n) :> Dir) @@ fs
        /\ UNCHANGED <<last, current>>

\* File::create and the write in the test set-up
SetupCreateFile ==
    /\ last.op = "none"
    /\ \E d \in {q \in DOMAIN fs : is_dir(fs, q)}, n \in Names, c \in 0..NumData :
        /\ CanCreate(join(d, n))
        /\ fs' = (join(d, n) :> File(c)) @@ fs
        /\ UNCHANGED <<last, current>>

\* an entry that is neither a directory nor a regular file
SetupCreateOther ==
    /\ last.op = "none"
    /\ \E d \in {q \in DOMAIN fs : is_dir(fs, q)}, n \in Names :
        /\ CanCreate(join(d, n))
        /\ fs' = (join(d, n) :> Other) @@ fs
        /\ UNCHANGED <<last, current>>

\* one call copy_dir_all(src, dest)
CopyCall ==
    /\ last.op = "none"
    /\ \E src \in CallPaths, dest \in CallPaths :
        \E r \in copy_dir_all(fs, src, dest) :
            /\ fs' = r.fs
            /\ last' = [before |-> fs, dest |-> dest, ok |-> r.ok,
                        op |-> "copy_dir_all", src |-> src]
    /\ UNCHANGED current

NextCopy == SetupCreateDir \/ SetupCreateFile \/ SetupCreateOther \/ CopyCall

SpecCopy == InitCopy /\ [][NextCopy]_vars

(***************************************************************************)
(* Properties of copy_dir_all.                                             *)
(***************************************************************************)
Copied == last.op = "copy_dir_all"

\* the path under dest that corresponds to p under src
Rebase(p, src, dest) == dest \o SubSeq(p, Len(src) + 1, Len(p))

Under(f, src) == {p \in DOMAIN f : IsPrefix(src, p) /\ p # src}

Disjoint(p, q) == ~IsPrefix(p, q) /\ ~IsPrefix(q, p)

\* every file and directory that was under src is under dest, files with
\* the content they had
RoundTrip(before, after, src, dest) ==
    /\ is_dir(after, dest)
    /\ \A p \in Under(before, src) :
        /\ is_file(before, p) =>
              /\ is_file(after, Rebase(p, src, dest))
              /\ after[Rebase(p, src, dest)].data = before[p].data
        /\ is_dir(before, p) => is_dir(after, Rebase(p, src, dest))

\* C6: copy_dir_all with a source path that does not exist fails and
\* leaves the filesystem exactly as it was; the destination is not created.
C6_MissingSourceNoMutation ==
    (Copied /\ ~exists(last.before, last.src)) =>
        (~last.ok /\ fs = last.before)

C6_Witness ==
    /\ Copied
    /\ ~exists(last.before, last.src)
    /\ ~exists(last.before, last.dest)
    /\ Len(last.dest) = 2
    /\ ~exists(last.before, SubSeq(last.dest, 1, 1))
    /\ ~last.ok

\* C7 as stated, for any src and dest: after a successful copy every file
\* that is under src is under dest with the same content, and every
\* subdirectory of src exists under dest.
C7_RoundTripAnyPaths ==
    (Copied /\ last.ok) => RoundTrip(fs, fs, last.src, last.dest)

\* C7, amended: the round trip holds when neither of src and dest lies
\* inside the other; the source tree is then also left as it was.
C7_RoundTripDisjoint ==
    (Copied /\ last.ok /\ Disjoint(last.src, last.dest)) =>
        /\ RoundTrip(last.before, fs, last.src, last.dest)
        /\ \A p \in Under(last.before, last.src) : fs[p] = last.before[p]

C7_Witness ==
    /\ Copied /\ last.ok /\ Disjoint(last.src, last.dest)
    /\ ~exists(last.before, last.dest)
    /\ \E p \in Under(last.before, last.src) :
        /\ Len(p) = Len(last.src) + 2
        /\ is_file(last.before, p)
        /\ last.before[p].data = 1
        /\ fs[Rebase(p, last.src, last.dest)] = File(1)

(***************************************************************************)
(* The partition search on every listing of up to MaxDevs entries.         *)
(***************************************************************************)
Missing == <<"missing">>
Null == <<"null">>
Str(x) == <<"str", x>>

\* one key of a JSON object: absent, null or a string
Field(key, c) ==
    IF c = Missing THEN <<>>
    ELSE key :> (IF c = Null THEN JsonNull ELSE JsonStr(c[2]))

RawEntries ==
    {Field("path", a) @@ Field("pttype", b) @@ Field("parttypename", c) @@ Field("size", d) :
        a \in {Missing, Str("/dev/sda1"), Str("/dev/sda2")},
        b \in {Missing, Str("gpt"), Str("dos")},
        c \in {Null, Str("BIOS boot"), Str("EFI System")},
        d \in {Missing, Str("1G")}}

RECURSIVE ListingsUpTo(_)
ListingsUpTo(n) ==
    IF n = 0 THEN {<<>>}
    ELSE ListingsUpTo(n - 1) \cup
         {Append(l, e) : l \in {k \in ListingsUpTo(n - 1) : Len(k) = n - 1}, e \in RawEntries}

AllListings ==
    {NoListing, Run(TRUE, [json |-> FALSE]), Run(TRUE, [json |-> TRUE, value |-> <<>>])}
    \cup {Run(TRUE, [json |-> TRUE, value |-> [blockdevices |-> l]]) : l \in ListingsUpTo(MaxDevs)}

InitLsblk ==
    /\ fs = EmptyFs
    /\ last = NoOp
    /\ current = <<>>

\* one call get_bios_boot_partition()
PartitionSearch ==
    /\ last.op = "none"
    /\ \E l \in AllListings :
        \E o \in get_bios_boot_partition(<<>>, {l}) :
            /\ last' = [listing |-> o.listing, log |-> o.log,
                        op |-> "get_bios_boot_partition", res |-> o.res]
            /\ UNCHANGED <<fs, current>>

NextLsblk == PartitionSearch

SpecLsblk == InitLsblk /\ [][NextLsblk]_vars

Searched == last.op = "get_bios_boot_partition"

\* the listing lsblk printed is well formed: JSON, with blockdevices, each
\* entry with its path
WellFormed(j) ==
    /\ j.ok
    /\ j.stdout.json
    /\ "blockdevices" \in DOMAIN j.stdout.value
    /\ \A i \in DOMAIN j.stdout.value.blockdevices :
        LET e == j.stdout.value.blockdevices[i]
        IN  "path" \in DOMAIN e /\ e["path"] # JsonNull

\* an entry of the listing as printed has both fields, with these values
RawMatch(e) ==
    /\ "pttype" \in DOMAIN e /\ e["pttype"] = JsonStr("gpt")
    /\ "parttypename" \in DOMAIN e /\ e["parttypename"] = JsonStr("BIOS boot")

\* C8: over a well-formed listing the partition search returns the path of
\* the first entry whose table type is "gpt" and whose type name is
\* "BIOS boot", and Ok(None) when no entry has both.
C8_FirstMatch ==
    (Searched /\ WellFormed(last.listing)) =>
        LET l == last.listing.stdout.value.blockdevices
            hits == {i \in DOMAIN l : RawMatch(l[i])}
        IN  /\ last.res.ok
            /\ (hits = {}) => last.res.val = None
            /\ \A i \in hits :
                (\A k \in hits : i <= k) => last.res.val = Some(l[i]["path"][1])

C8_Witness ==
    /\ Searched /\ WellFormed(last.listing)
    /\ LET l == last.listing.stdout.value.blockdevices
       IN  /\ Len(l) = 2
           /\ RawMatch(l[1]) /\ RawMatch(l[2])
           /\ l[1]["path"] # l[2]["path"]
           /\ last.res = Ok(Some(l[1]["path"][1]))

C8_WitnessNone ==
    /\ Searched /\ WellFormed(last.listing)
    /\ LET l == last.listing.stdout.value.blockdevices
       IN  /\ Len(l) = 2
           /\ "pttype" \notin DOMAIN l[1] /\ l[1]["parttypename"] = JsonStr("BIOS boot")
           /\ "pttype" \in DOMAIN l[2] /\ l[2]["pttype"] = JsonStr("gpt")
           /\ l[2]["parttypename"] = JsonNull
           /\ last.res = Ok(None)

(***************************************************************************)
(* The bootloader install procedure.                                       *)
(***************************************************************************)
\* /usr/lib64/grub/i386-pc (bios.rs 68-71)
ModulesDir == <<"usr", "lib64", "grub", "i386-pc">>

\* "/" joined with GRUB_BIN (bios.rs 14, 87)
GrubBin == <<"usr", "sbin", "grub-install">>

\* /usr/lib64/grub/x86_64-efi (bios.rs 115)
EfiSource == <<"usr", "lib64", "grub", "x86_64-efi">>

\* boot_dir.join("grub").join("x86_64-efi") (bios.rs 116)
EfiDestination(boot_dir) == join(join(boot_dir, "grub"), "x86_64-efi")

\* what grub-install leaves in the boot directory
CoreImg(boot_dir) == boot_dir \o <<"grub", "i386-pc", "core.img">>

\* check_grub_modules (bios.rs 67-80), x86_64
check_grub_modules(f) == Ok(exists(f, ModulesDir))

\* grub-install --target i386-pc --boot-directory <boot_dir> --modules
\* "mdraid1x part_gpt" <device>, as run_grub_install sees it: the tool may
\* or may not have written its image under <boot_dir>/grub/i386-pc
\* (overwriting what was there), and it exits with success or not, the one
\* not bound to the other.
GrubInstallRuns(f, boot_dir, device) ==
    LET d == create_dir_all(f, SubSeq(CoreImg(boot_dir), 1, Len(boot_dir) + 2))
        w == IF d.ok /\ ~is_dir(d.fs, CoreImg(boot_dir))
             THEN {[fs |-> (CoreImg(boot_dir) :> File(1)) @@ d.fs, wrote |-> TRUE]}
             ELSE {}
    IN  {[fs |-> t.fs, ok |-> ok, wrote |-> t.wrote]
            : t \in {[fs |-> f, wrote |-> FALSE]} \cup w, ok \in BOOLEAN}

\* the log entry of a run of the install tool
ToolCall(device, boot_dir, t) ==
    [arg |-> device, cmd |-> "grub-install", dir |-> boot_dir, ok |-> t.ok,
     wrote |-> t.wrote]

\* an install step that puts the boot directory back when it fails after
\* the install tool ran
grub_install_and_copy_rollback(f, dest_root, device, log) ==
    UNION {
        LET boot_dir == join(dest_root, "boot")
            log1 == Append(log, ToolCall(device, boot_dir, t))
            destination == EfiDestination(boot_dir)
        IN  IF ~t.ok
            THEN {[fs |-> f, log |-> log1, res |-> Err("Failed to run grub-install")]}
            ELSE IF ~exists(t.fs, EfiSource)
            THEN {[fs |-> f, log |-> log1, res |-> Err("Source directory not found")]}
            ELSE {[fs |-> IF c.ok THEN c.fs ELSE f,
                   log |-> Append(log1, Call("copy_dir_all", <<>>, destination, c.ok)),
                   res |-> IF c.ok THEN Ok(<<>>) ELSE Err("copy failed")]
                    : c \in copy_dir_all(t.fs, EfiSource, destination)}
        : t \in GrubInstallRuns(f, join(dest_root, "boot"), device)}

\* run_grub_install from the call of the install binary on (bios.rs
\* 92-143), x86_64: every way it can go
grub_install_and_copy(f, dest_root, device, log) ==
    UNION {
        LET boot_dir == join(dest_root, "boot")
            log1 == Append(log, ToolCall(device, boot_dir, t))
            destination == EfiDestination(boot_dir)
        IN  IF ~t.ok
            THEN {[fs |-> t.fs, log |-> log1, res |-> Err("Failed to run grub-install")]}
            ELSE IF ~exists(t.fs, EfiSource)
            THEN {[fs |-> t.fs, log |-> log1, res |-> Err("Source directory not found")]}
            ELSE {[fs |-> c.fs,
                   log |-> Append(log1, Call("copy_dir_all", <<>>, destination, c.ok)),
                   res |-> IF c.ok THEN Ok(<<>>) ELSE Err("copy failed")]
                    : c \in copy_dir_all(t.fs, EfiSource, destination)}
        : t \in GrubInstallRuns(f, join(dest_root, "boot"), device)}

\* the two checks in the other order
run_grub_install_binary_first(f, dest_root, device, log) ==
    IF ~exists(f, GrubBin)
    THEN {[fs |-> f, log |-> log, res |-> Err("Failed to find grub-install")]}
    ELSE IF ~check_grub_modules(f).val
    THEN {[fs |-> f, log |-> log, res |-> Err("Failed to find grub modules")]}
    ELSE grub_install_and_copy(f, dest_root, device, log)

\* run_grub_install (bios.rs 83-144): the two checks, then the rest
run_grub_install(f, dest_root, device, log) ==
    IF ~check_grub_modules(f).val
    THEN {[fs |-> f, log |-> log, res |-> Err("Failed to find grub modules")]}
    ELSE IF ~exists(f, GrubBin)
    THEN {[fs |-> f, log |-> log, res |-> Err("Failed to find grub-install")]}
    ELSE grub_install_and_copy(f, dest_root, device, log)

(***************************************************************************)
(* The Component operations (bios.rs 208-293).                             *)
(***************************************************************************)
\* ContentMetadata
Metas == {[version |-> "v1"], [version |-> "v2"]}

\* the sysroot the operations are given
Sysroots == {<<>>}

\* where write_update_metadata keeps the update metadata of this component
MetadataFile(sysroot) == sysroot \o <<"usr", "lib", "bootupd", "updates", "BIOS.json">>

\* the update metadata as file content, and back
MetaData(meta) == IF meta.version = "v1" THEN 1 ELSE 2
MetaOf(data) == IF data = 1 THEN [version |-> "v1"] ELSE [version |-> "v2"]

\* what packagesystem::query_files may answer (bios.rs 239)
QueryFilesAnswers == {Err("package query failed")} \cup {Ok(m) : m \in Metas}

\* write_update_metadata: fails, writing nothing, or persists the metadata
\* under the sysroot
write_update_metadata(f, sysroot, meta) ==
    LET d == create_dir_all(f, SubSeq(MetadataFile(sysroot), 1, Len(sysroot) + 4))
    IN  {[fs |-> f, ok |-> FALSE]} \cup
        (IF d.ok /\ ~is_dir(d.fs, MetadataFile(sysroot))
         THEN {[fs |-> (MetadataFile(sysroot) :> File(MetaData(meta))) @@ d.fs,
                ok |-> TRUE]}
         ELSE {})

\* generate_update_metadata (bios.rs 232-242)
generate_update_metadata(f, sysroot) ==
    IF ~exists(f, sysroot \o GrubBin)
    THEN {[fs |-> f, log |-> <<>>, res |-> Err("Failed to find grub-install")]}
    ELSE UNION {
        LET log1 == <<Call("query_files", <<>>, sysroot, m.ok)>>
        IN  IF ~m.ok THEN {[fs |-> f, log |-> log1, res |-> Err(m.err)]}
            ELSE {[fs |-> w.fs,
                   log |-> Append(log1, Call("write_update_metadata", <<>>, sysroot, w.ok)),
                   res |-> IF w.ok THEN Ok(m.val) ELSE Err("metadata not written")]
                    : w \in write_update_metadata(f, sysroot, m.val)}
        : m \in QueryFilesAnswers}

\* get_component_update: the metadata kept under the sysroot, None when
\* there is none, or an error
get_component_update(f, sysroot) ==
    {Err("update metadata unreadable")} \cup
    (IF is_file(f, MetadataFile(sysroot))
     THEN {Ok(Some(MetaOf(f[MetadataFile(sysroot)].data)))}
     ELSE {Ok(None)})

\* what crate::efi::is_efi_booted may answer
EfiAnswers == {Err("efi state unreadable"), Ok(TRUE), Ok(FALSE)}

\* what crate::component::query_adopt_state may answer
AdoptAnswers ==
    {Err("adopt state unreadable"), Ok(None), Ok(Some([version |-> "v0"]))}

\* the listings lsblk --json prints in these systems
SystemListings ==
    {NoListing,
     Run(TRUE, [json |-> FALSE]),
     Run(TRUE, [json |-> TRUE, value |-> [blockdevices |->
        <<("path" :> JsonStr("/dev/sda")) @@ ("pttype" :> JsonStr("gpt"))
            @@ ("parttypename" :> JsonNull),
          ("path" :> JsonStr("/dev/sda1")) @@ ("pttype" :> JsonStr("gpt"))
            @@ ("parttypename" :> JsonStr("EFI System"))>>]]),
     Run(TRUE, [json |-> TRUE, value |-> [blockdevices |->
        <<("path" :> JsonStr("/dev/sda")) @@ ("pttype" :> JsonStr("gpt"))
            @@ ("parttypename" :> JsonNull),
          ("path" :> JsonStr("/dev/sda1")) @@ ("pttype" :> JsonStr("gpt"))
            @@ ("parttypename" :> JsonStr("BIOS boot"))>>]])}

\* InstalledContent
InstalledContent(meta, adopted_from) ==
    [adopted_from |-> adopted_from, filetree |-> None, meta |-> meta]

NotCalled == Err("not called")

\* the record install returns (bios.rs 225-229)
install_result(meta) == InstalledContent(meta, None)

\* Component::install (bios.rs 213-230)
install(f, dest_root, device) ==
    UNION {
        LET log1 == <<Call("get_component_update", <<>>, <<>>, u.ok)>>
        IN  IF ~u.ok THEN {[fs |-> f, log |-> log1, res |-> Err(u.err)]}
            ELSE IF u.val = None
            THEN {[fs |-> f, log |-> log1, res |-> Err("Update metadata not found")]}
            ELSE {[fs |-> r.fs, log |-> r.log,
                   res |-> IF r.res.ok THEN Ok(install_result(u.val[1])) ELSE r.res]
                    : r \in run_grub_install(f, dest_root, device, log1)}
        : u \in get_component_update(f, <<>>)}

\* a skip test with is_some for is_none
skip_adopt_is_some(efi_booted, partition) == efi_booted /\ partition # None

\* the skip test of query_adopt (bios.rs 246)
skip_adopt(efi_booted, partition) == efi_booted /\ partition = None

\* crate::component::query_adopt_state, as query_adopt calls it (bios.rs 250)
query_adopt_state(log, efi, part) ==
    {[efi |-> efi, log |-> Append(log, Call("query_adopt_state", <<>>, <<>>, a.ok)),
      part |-> part, res |-> a] : a \in AdoptAnswers}

\* query_adopt (bios.rs 244-251), x86_64
query_adopt(log) ==
    UNION {
        LET log1 == Append(log, Call("is_efi_booted", <<>>, <<>>, e.ok))
        IN  IF ~e.ok THEN {[efi |-> e, log |-> log1, part |-> NotCalled, res |-> Err(e.err)]}
            ELSE IF ~e.val THEN query_adopt_state(log1, e, NotCalled)
            ELSE UNION {
                IF ~p.res.ok
                THEN {[efi |-> e, log |-> p.log, part |-> p.res, res |-> Err(p.res.err)]}
                ELSE IF skip_adopt(e.val, p.res.val)
                THEN {[efi |-> e, log |-> p.log, part |-> p.res, res |-> Ok(None)]}
                ELSE query_adopt_state(p.log, e, p.res)
                : p \in get_bios_boot_partition(log1, SystemListings)}
        : e \in EfiAnswers}

\* a record that names the update's own version as the adopted one
adopt_update_result_own_version(update, meta) ==
    InstalledContent(update, Some(update.version))

\* the record adopt_update returns (bios.rs 261-265)
adopt_update_result(update, meta) == InstalledContent(update, Some(meta.version))

\* adopt_update, after query_adopt found something (bios.rs 258-265)
adopt_install(f, update, meta, log) ==
    UNION {
        IF ~d.res.ok THEN {[fs |-> f, log |-> d.log, res |-> Err(d.res.err)]}
        ELSE {[fs |-> r.fs, log |-> r.log,
               res |-> IF r.res.ok THEN Ok(adopt_update_result(update, meta)) ELSE r.res]
                : r \in run_grub_install(f, <<>>, trim(d.res.val), d.log)}
        : d \in get_device(log)}

\* an adopt_update that resolves the device before it looks at what
\* query_adopt returned
adopt_update_device_first(f, update) ==
    UNION {
        IF ~q.res.ok THEN {[fs |-> f, log |-> q.log, q |-> q, res |-> Err(q.res.err)]}
        ELSE UNION {
            IF ~d.res.ok THEN {[fs |-> f, log |-> d.log, q |-> q, res |-> Err(d.res.err)]}
            ELSE IF q.res.val = None
            THEN {[fs |-> f, log |-> d.log, q |-> q,
                   res |-> Err("Failed to find adoptable system")]}
            ELSE {[fs |-> r.fs, log |-> r.log, q |-> q,
                   res |-> IF r.res.ok
                           THEN Ok(adopt_update_result(update, q.res.val[1]))
                           ELSE r.res]
                    : r \in run_grub_install(f, <<>>, trim(d.res.val), d.log)}
            : d \in get_device(q.log)}
        : q \in query_adopt(<<>>)}

\* Component::adopt_update (bios.rs 253-266)
adopt_update(f, update) ==
    UNION {
        IF ~q.res.ok THEN {[fs |-> f, log |-> q.log, q |-> q, res |-> Err(q.res.err)]}
        ELSE IF q.res.val = None
        THEN {[fs |-> f, log |-> q.log, q |-> q,
               res |-> Err("Failed to find adoptable system")]}
        ELSE {[fs |-> r.fs, log |-> r.log, q |-> q, res |-> r.res]
                : r \in adopt_install(f, update, q.res.val[1], q.log)}
        : q \in query_adopt(<<>>)}

\* the record run_update returns (bios.rs 278-283)
run_update_result(updatemeta, installed) == InstalledContent(updatemeta, None)

\* Component::run_update (bios.rs 272-284); expect() panics on None
run_update(f, installed) ==
    UNION {
        LET log1 == <<Call("get_component_update", <<>>, <<>>, u.ok)>>
        IN  IF ~u.ok THEN {[fs |-> f, log |-> log1, res |-> Err(u.err)]}
            ELSE IF u.val = None
            THEN {[fs |-> f, log |-> log1, res |-> Err("panic: update available")]}
            ELSE UNION {
                IF ~d.res.ok THEN {[fs |-> f, log |-> d.log, res |-> Err(d.res.err)]}
                ELSE {[fs |-> r.fs, log |-> r.log,
                       res |-> IF r.res.ok
                               THEN Ok(run_update_result(u.val[1], installed))
                               ELSE r.res]
                        : r \in run_grub_install(f, <<>>, trim(d.res.val), d.log)}
                : d \in get_device(log1)}
        : u \in get_component_update(f, <<>>)}

(***************************************************************************)
(* The systems the operations run on: with or without the grub modules,    *)
(* the install binary, the support files and the update metadata, and     *)
(* with a boot directory that may hold files of an earlier installation.   *)
(***************************************************************************)
NoTree == [p \in {} |-> Dir]

\* what /usr/lib64/grub/x86_64-efi may hold
SourceTrees ==
    {NoTree,
     (<<>> :> Dir) @@ (<<"a">> :> File(1)),
     (<<>> :> Dir) @@ (<<"a">> :> File(1)) @@ (<<"b">> :> File(1)),
     (<<>> :> Dir) @@ (<<"a">> :> Dir) @@ (<<"a", "b">> :> File(1)) @@ (<<"b">> :> Other)}

\* what /boot/grub/x86_64-efi may hold before
BootTrees ==
    {NoTree,
     (<<>> :> Dir) @@ (<<"b">> :> File(0)),
     (<<>> :> Dir) @@ (<<"b">> :> Dir)}

\* f with `tree` placed at path `at`, missing ancestors created
Graft(f, at, tree) ==
    IF DOMAIN tree = {} THEN f
    ELSE LET new == {at \o r : r \in DOMAIN tree}
         IN  [p \in DOMAIN f \cup Prefixes(at) \cup new |->
                IF p \in new THEN tree[SubSeq(p, Len(at) + 1, Len(p))]
                ELSE IF p \in DOMAIN f THEN f[p]
                ELSE Dir]

SystemFs(mods, bin, src, boot) ==
    LET f0 == Graft(EmptyFs, <<"usr">>, (<<>> :> Dir))
        f1 == IF mods THEN Graft(f0, ModulesDir, (<<>> :> Dir)) ELSE f0
        f2 == IF bin THEN Graft(f1, GrubBin, (<<>> :> File(1))) ELSE f1
        f3 == Graft(f2, EfiSource, src)
    IN  Graft(f3, EfiDestination(<<"boot">>), boot)

\* the destination roots and devices install is called with
DestRoots == {<<>>, <<"mnt">>}
Devices == {<<"/dev/sda">>}

\* between operations: no call is in progress; `prev` is what the install
\* that just returned successfully was called with and whether the tool
\* wrote its image, <<>> after anything else
Idle(prev) == [op |-> "none", prev |-> prev]

Init ==
    /\ \E mods \in BOOLEAN, bin \in BOOLEAN, src \in SourceTrees, boot \in BootTrees,
          meta \in {NoTree, (<<>> :> File(MetaData([version |-> "v1"])))} :
        fs = Graft(SystemFs(mods, bin, src, boot), MetadataFile(<<>>), meta)
    /\ last = Idle(<<>>)
    /\ current = None

\* positions of the log where command c was run
CallsOf(log, c) == {i \in DOMAIN log : log[i].cmd = c}

Install ==
    /\ last.op = "none"
    /\ UNCHANGED current
    /\ \E dest_root \in DestRoots, device \in Devices :
        \E o \in install(fs, dest_root, device) :
            /\ fs' = o.fs
            /\ last' = [after |-> o.fs, before |-> fs, cur |-> current,
                        dest_root |-> dest_root, device |-> device,
                        log |-> o.log, op |-> "install", prev |-> last.prev,
                        res |-> o.res]

RunUpdate ==
    /\ last.op = "none"
    /\ current # None
    /\ UNCHANGED current
    /\ \E o \in run_update(fs, current[1]) :
        /\ fs' = o.fs
        /\ last' = [after |-> o.fs, before |-> fs, cur |-> current,
                    log |-> o.log, op |-> "run_update", res |-> o.res]

AdoptUpdate ==
    /\ last.op = "none"
    /\ UNCHANGED current
    /\ \E update \in Metas :
        \E o \in adopt_update(fs, update) :
            /\ fs' = o.fs
            /\ last' = [after |-> o.fs, before |-> fs, cur |-> current,
                        log |-> o.log, op |-> "adopt_update", q |-> o.q,
                        res |-> o.res, update |-> update]

QueryAdopt ==
    /\ last.op = "none"
    /\ UNCHANGED <<fs, current>>
    /\ \E o \in query_adopt(<<>>) :
        last' = [after |-> fs, before |-> fs, cur |-> current, efi |-> o.efi,
                 log |-> o.log, op |-> "query_adopt", part |-> o.part, res |-> o.res]

GenerateUpdateMetadata ==
    /\ last.op = "none"
    /\ UNCHANGED current
    /\ \E sysroot \in Sysroots :
        \E o \in generate_update_metadata(fs, sysroot) :
            /\ fs' = o.fs
            /\ last' = [after |-> o.fs, before |-> fs, cur |-> current,
                        log |-> o.log, op |-> "generate_update_metadata",
                        res |-> o.res]

\* what the caller holds once the operation has returned: the record it
\* returned, or after an error (or a query) the record held before
Saved ==
    IF last.op \in {"install", "run_update", "adopt_update"} /\ last.res.ok
    THEN Some(last.res.val)
    ELSE current

\* the caller takes the result of the operation
Return ==
    /\ last.op # "none"
    /\ current' = Saved
    /\ last' = Idle(IF last.op = "install" /\ last.res.ok
                    THEN <<last.dest_root, last.device,
                           \E i \in CallsOf(last.log, "grub-install") : last.log[i].wrote>>
                    ELSE <<>>)
    /\ UNCHANGED fs

Next ==
    \/ GenerateUpdateMetadata
    \/ Install
    \/ RunUpdate
    \/ AdoptUpdate
    \/ QueryAdopt
    \/ Return

Spec == Init /\ [][Next]_vars

(***************************************************************************)
(* Properties of the lifecycle operations.  `last` records the operation   *)
(* just performed: the filesystem before and after, the external commands  *)
(* it ran (in order, with their arguments) and what it returned.           *)
(***************************************************************************)
InstallOps == {"install", "run_update", "adopt_update"}

\* C1: adopted_from is set exactly in the records adopt_update returns;
\* install and run_update return adopted_from = None, and adopt_update
\* returns the version query_adopt found, with meta the update passed in.
C1_AdoptedFromIffAdopt ==
    (last.op \in InstallOps /\ last.res.ok) =>
        /\ (last.res.val.adopted_from # None) <=> (last.op = "adopt_update")
        /\ last.op = "adopt_update" =>
            /\ last.q.res.ok /\ last.q.res.val # None
            /\ last.res.val.adopted_from = Some(last.q.res.val[1].version)
            /\ last.res.val.meta = last.update

C1_Witness ==
    /\ last.op = "adopt_update"
    /\ last.res.ok
    /\ last.res.val.adopted_from = Some("v0")
    /\ last.res.val.meta = [version |-> "v2"]

C1_WitnessInstall ==
    /\ last.op \in {"install", "run_update"}
    /\ last.res.ok
    /\ last.res.val.adopted_from = None

\* the query_adopt call of the last operation: the one made directly, or
\* the one adopt_update made
LastQuery ==
    IF last.op = "query_adopt"
    THEN [efi |-> last.efi, log |-> last.log, part |-> last.part, res |-> last.res]
    ELSE last.q

\* C2: when is_efi_booted answers true and the partition search returns
\* Ok(None), query_adopt returns Ok(None) without asking for the stored
\* adopt state, without running the install tool and without changing the
\* filesystem.
C2_SkipRule ==
    (last.op \in {"query_adopt", "adopt_update"}
        /\ LastQuery.efi = Ok(TRUE) /\ LastQuery.part = Ok(None)) =>
        /\ LastQuery.res = Ok(None)
        /\ CallsOf(LastQuery.log, "query_adopt_state") = {}
        /\ CallsOf(last.log, "grub-install") = {}
        /\ CallsOf(last.log, "copy_dir_all") = {}
        /\ last.after = last.before

C2_Witness ==
    /\ last.op = "query_adopt"
    /\ last.efi = Ok(TRUE)
    /\ last.part = Ok(None)
    /\ last.res = Ok(None)
    /\ CallsOf(last.log, "lsblk-json") # {}

\* C3: the modules are checked first and the binary second, and the binary
\* is run only when both are there: with the module directory absent the
\* operation fails, never on account of the binary, the install tool is
\* not run and the filesystem is as before.
C3_ModulesThenBinary ==
    last.op \in InstallOps =>
        /\ ~exists(last.before, ModulesDir) =>
            /\ ~last.res.ok
            /\ last.res.err # "Failed to find grub-install"
            /\ CallsOf(last.log, "grub-install") = {}
            /\ last.after = last.before
        /\ last.res.ok \/ last.res.err = "Failed to find grub-install" =>
            exists(last.before, ModulesDir)
        /\ CallsOf(last.log, "grub-install") # {} =>
            exists(last.before, ModulesDir) /\ exists(last.before, GrubBin)

C3_Witness ==
    /\ last.op = "install"
    /\ ~exists(last.before, ModulesDir)
    /\ ~exists(last.before, GrubBin)
    /\ last.res = Err("Failed to find grub modules")

C10_ToolSucceeded == \E i \in CallsOf(last.log, "grub-install") : last.log[i].ok

C10_ToolWrote == \E i \in CallsOf(last.log, "grub-install") : last.log[i].wrote

\* the boot directory the install tool was given
C10_BootDir == last.log[CHOOSE i \in CallsOf(last.log, "grub-install") : TRUE].dir

\* C10: the copy is started only right after the install tool succeeded,
\* and when the tool succeeded but the operation failed (support directory
\* missing, or copy failed) an error and no record is returned, the caller
\* holds the record it held, nothing that existed is removed, the image is
\* there if the tool wrote it, and so is every file the copy wrote before
\* failing.
C10_NoRollback ==
    last.op \in InstallOps =>
        /\ \A i \in CallsOf(last.log, "copy_dir_all") :
            i > 1 /\ last.log[i - 1].cmd = "grub-install" /\ last.log[i - 1].ok
        /\ (C10_ToolSucceeded /\ ~last.res.ok) =>
            /\ last.res.err \in {"Source directory not found", "copy failed"}
            /\ last.res.val = None
            /\ current = last.cur
            /\ DOMAIN last.before \subseteq DOMAIN last.after
            /\ C10_ToolWrote =>
                /\ is_file(last.after, CoreImg(C10_BootDir))
                /\ last.after[CoreImg(C10_BootDir)] = File(1)
            /\ LET dest == EfiDestination(C10_BootDir)
               IN  \A p \in DOMAIN last.after :
                    \/ p \in DOMAIN last.before /\ last.after[p] = last.before[p]
                    \/ C10_ToolWrote /\ IsPrefix(C10_BootDir \o <<"grub", "i386-pc">>, p)
                    \/ p \in Prefixes(dest)
                    \/ /\ IsPrefix(dest, p)
                       /\ Rebase(p, dest, EfiSource) \in DOMAIN last.before
                       /\ last.after[p] = last.before[Rebase(p, dest, EfiSource)]

C10_Witness ==
    /\ last.op \in InstallOps
    /\ C10_ToolSucceeded
    /\ C10_ToolWrote
    /\ is_file(last.after, CoreImg(C10_BootDir))
    /\ last.res = Err("copy failed")
    /\ current = last.cur
    /\ \E p \in DOMAIN last.after :
        /\ IsPrefix(EfiDestination(C10_BootDir), p)
        /\ p \notin DOMAIN last.before
        /\ is_file(last.after, p)

C10_WitnessNoSource ==
    /\ last.op \in InstallOps
    /\ C10_ToolSucceeded
    /\ C10_ToolWrote
    /\ last.res = Err("Source directory not found")
    /\ CoreImg(C10_BootDir) \notin DOMAIN last.before
    /\ is_file(last.after, CoreImg(C10_BootDir))

\* C4: a successful install that directly follows a successful install
\* with the same dest_root and device, the install tool doing on the second
\* run what it did on the first, leaves the filesystem, and so the boot
\* directory, exactly as the first one left it.
C4_InstallIdempotent ==
    (/\ last.op = "install" /\ last.res.ok
     /\ last.prev = <<last.dest_root, last.device,
                      \E i \in CallsOf(last.log, "grub-install") : last.log[i].wrote>>)
        => last.after = last.before

\* a second install over the image and the support files the first left,
\* at least one of them a regular file
C4_Witness ==
    /\ last.op = "install"
    /\ last.res.ok
    /\ last.prev = <<last.dest_root, last.device, TRUE>>
    /\ is_file(last.before, CoreImg(join(last.dest_root, "boot")))
    /\ \E p \in DOMAIN last.before :
        /\ IsPrefix(EfiDestination(join(last.dest_root, "boot")), p)
        /\ is_file(last.before, p)
        /\ last.before[p] = last.before[Rebase(p, EfiDestination(join(last.dest_root, "boot")), EfiSource)]
    /\ last.after = last.before

DeviceQueries == {"findmnt", "lsblk-pkname", "lsblk-json"}

\* C5 as stated: when query_adopt returns None, adopt_update fails having
\* resolved no device at all and without running the install tool; and it
\* runs the tool only after query_adopt returned Some and get_device
\* succeeded.
C5_NoDeviceResolved ==
    last.op = "adopt_update" =>
        /\ last.q.res = Ok(None) =>
            /\ ~last.res.ok
            /\ last.res.val = None
            /\ \A c \in DeviceQueries : CallsOf(last.log, c) = {}
            /\ CallsOf(last.log, "grub-install") = {}
        /\ CallsOf(last.log, "grub-install") # {} =>
            /\ last.q.res.ok /\ last.q.res.val # None

\* C5, amended: when query_adopt returns None, adopt_update fails at once:
\* it runs nothing after query_adopt returned (the device queries in its
\* log are the ones query_adopt made for the partition search), never the
\* install tool, changes nothing and returns no record; and the tool is run
\* only after query_adopt returned Some and, next, get_device succeeded.
C5_NothingAfterQueryAdopt ==
    last.op = "adopt_update" =>
        /\ last.q.res = Ok(None) =>
            /\ last.res = Err("Failed to find adoptable system")
            /\ last.res.val = None
            /\ last.log = last.q.log
            /\ CallsOf(last.log, "grub-install") = {}
            /\ last.after = last.before
            /\ current = last.cur
        /\ \A i \in CallsOf(last.log, "grub-install") :
            /\ last.q.res.ok /\ last.q.res.val # None
            /\ i = Len(last.q.log) + 3
            /\ last.log[i - 2].cmd = "findmnt" /\ last.log[i - 2].ok
            /\ last.log[i - 1].cmd = "lsblk-pkname" /\ last.log[i - 1].ok

\* the skip-rule case: the partition search resolved the device
C5_Witness ==
    /\ last.op = "adopt_update"
    /\ last.q.efi = Ok(TRUE)
    /\ last.q.part = Ok(None)
    /\ last.q.res = Ok(None)
    /\ CallsOf(last.log, "findmnt") # {}
    /\ last.res = Err("Failed to find adoptable system")

C5_WitnessTool ==
    /\ last.op = "adopt_update"
    /\ last.q.res = Ok(Some([version |-> "v0"]))
    /\ CallsOf(last.log, "grub-install") # {}

\* C9 as stated: get_device fails when a query fails or prints nothing, so
\* the parent-device query is never issued for a blank partition and the
\* install tool is never given an empty device.
C9_NoEmptyDevice ==
    last.op \in {"run_update", "adopt_update"} =>
        /\ \A i \in CallsOf(last.log, "grub-install") : last.log[i].arg # <<>>
        /\ \A i \in CallsOf(last.log, "lsblk-pkname") : last.log[i].arg # <<>>

\* the part of C9 about the install tool alone
C9_ToolGivenDevice ==
    last.op \in {"run_update", "adopt_update"} =>
        \A i \in CallsOf(last.log, "grub-install") : last.log[i].arg # <<>>

====
